---- MODULE Spec2Model ----
(***************************************************************************)
(* High_Precision_Computation.ipynb: binary floating-point arithmetic as   *)
(* the notebook's cells exercise it (float64 and the x87 longdouble), the  *)
(* machine parameters np.finfo prints, the formatted output of the cells,  *)
(* and the bit layout of the appendix.                                     *)
(*                                                                         *)
(* TLC's integers are 32 bits wide, while a float64 significand has 53     *)
(* bits and the exact sum 1.0 + 1e-30 needs more than 150.  Natural        *)
(* numbers are therefore sequences of limbs, least significant first, in   *)
(* base 2^15, without leading zero limbs (zero is the empty sequence).     *)
(***************************************************************************)
EXTENDS Integers, Sequences, FiniteSets, TLC

\* ------------------------------------------------------------------------
\* Exact natural-number arithmetic
\* ------------------------------------------------------------------------

Min(a, b) == IF a < b THEN a ELSE b

\* F(v) with v evaluated once, before F is applied (a LET is evaluated at
\* each use)
With(v, F(_)) == CHOOSE r \in {F(x) : x \in {v}} : TRUE

RECURSIVE Pow2S(_)
\* 2^n as a machine integer, n < 31
Pow2S(n) == IF n = 0 THEN 1 ELSE 2 * Pow2S(n - 1)

RECURSIVE BitLenS(_)
BitLenS(n) == IF n = 0 THEN 0 ELSE 1 + BitLenS(n \div 2)

BASE == Pow2S(15)

LimbBits == BitLenS(BASE) - 1

RECURSIVE BTrim(_)
BTrim(x) ==
    IF x = <<>> THEN <<>>
    ELSE IF x[Len(x)] = 0 THEN BTrim(SubSeq(x, 1, Len(x) - 1))
    ELSE x

BFromInt(n) ==
    IF n = 0 THEN <<>>
    ELSE IF n < BASE THEN <<n>>
    ELSE <<n % BASE, n \div BASE>>

BHead(x) == IF x = <<>> THEN 0 ELSE Head(x)

BTail(x) == IF x = <<>> THEN <<>> ELSE Tail(x)

RECURSIVE BAddC(_, _, _)
BAddC(x, y, c) ==
    IF x = <<>> /\ y = <<>> THEN (IF c = 0 THEN <<>> ELSE <<c>>)
    ELSE With(BHead(x) + BHead(y) + c, LAMBDA s :
             <<s % BASE>> \o BAddC(BTail(x), BTail(y), s \div BASE))

BAdd(x, y) == BAddC(x, y, 0)

RECURSIVE BSubC(_, _, _)
\* x - y - c for x >= y + c
BSubC(x, y, c) ==
    IF x = <<>> THEN <<>>
    ELSE With(BHead(x) - BHead(y) - c, LAMBDA d :
             IF d < 0 THEN <<d + BASE>> \o BSubC(BTail(x), BTail(y), 1)
             ELSE <<d>> \o BSubC(BTail(x), BTail(y), 0))

BSub(x, y) == BTrim(BSubC(x, y, 0))

RECURSIVE BCmpTop(_, _, _)
BCmpTop(x, y, i) ==
    IF i = 0 THEN 0
    ELSE IF x[i] < y[i] THEN -1
    ELSE IF x[i] > y[i] THEN 1
    ELSE BCmpTop(x, y, i - 1)

\* -1, 0, 1 as x <, =, > y
BCmp(x, y) ==
    IF Len(x) < Len(y) THEN -1
    ELSE IF Len(x) > Len(y) THEN 1
    ELSE BCmpTop(x, y, Len(x))

RECURSIVE BMulC(_, _, _)
BMulC(x, k, c) ==
    IF x = <<>> THEN (IF c = 0 THEN <<>> ELSE <<c>>)
    ELSE With(Head(x) * k + c, LAMBDA s :
             <<s % BASE>> \o BMulC(Tail(x), k, s \div BASE))

\* x * k for 0 <= k < BASE
BMulS(x, k) == IF k = 0 THEN <<>> ELSE BMulC(x, k, 0)

RECURSIVE BDivRemU(_, _)
BDivRemU(x, k) ==
    IF x = <<>> THEN [q |-> <<>>, r |-> 0]
    ELSE With(BDivRemU(Tail(x), k), LAMBDA hi :
             [q |-> <<(hi.r * BASE + Head(x)) \div k>> \o hi.q,
              r |-> (hi.r * BASE + Head(x)) % k])

\* quotient and remainder of x by k, 0 < k < BASE
BDivRem(x, k) ==
    With(BDivRemU(x, k), LAMBDA d : [q |-> BTrim(d.q), r |-> d.r])

RECURSIVE BShl(_, _)
\* x * 2^n
BShl(x, n) ==
    IF x = <<>> THEN <<>>
    ELSE IF n >= LimbBits THEN <<0>> \o BShl(x, n - LimbBits)
    ELSE BMulS(x, Pow2S(n))

RECURSIVE BShr(_, _)
\* floor(x / 2^n)
BShr(x, n) ==
    IF x = <<>> THEN <<>>
    ELSE IF n >= LimbBits THEN BShr(Tail(x), n - LimbBits)
    ELSE BDivRem(x, Pow2S(n)).q

BBitLen(x) ==
    IF x = <<>> THEN 0 ELSE LimbBits * (Len(x) - 1) + BitLenS(x[Len(x)])

BOdd(x) == x # <<>> /\ x[1] % 2 = 1

BOne == <<1>>

BPow2(n) == BShl(BOne, n)

RECURSIVE Pow10S(_)
\* 10^n as a machine integer, n < 5
Pow10S(n) == IF n = 0 THEN 1 ELSE 10 * Pow10S(n - 1)

RECURSIVE BMulPow10(_, _)
\* x * 10^j, four decimal digits at a time
BMulPow10(x, j) ==
    IF j = 0 \/ x = <<>> THEN x
    ELSE LET k == Min(j, 4)
         IN  BMulPow10(BMulS(x, Pow10S(k)), j - k)

RECURSIVE BDivPow10(_, _)
\* floor(x / 10^j), with the flag "the division was inexact"
BDivPow10(x, j) ==
    IF j = 0 \/ x = <<>> THEN [q |-> x, inexact |-> FALSE]
    ELSE With(BDivRem(x, Pow10S(Min(j, 4))), LAMBDA d :
             IF d.r = 0 THEN BDivPow10(d.q, j - Min(j, 4))
             ELSE [q |-> BDivPow10(d.q, j - Min(j, 4)).q, inexact |-> TRUE])

RECURSIVE BDigitsRev(_)
BDigitsRev(x) ==
    IF x = <<>> THEN <<>>
    ELSE With(BDivRem(x, 10), LAMBDA d : <<d.r>> \o BDigitsRev(d.q))

RECURSIVE SeqRev(_)
SeqRev(s) == IF s = <<>> THEN <<>> ELSE SeqRev(Tail(s)) \o <<Head(s)>>

\* the decimal digits of x, most significant first
BDigits(x) == SeqRev(BDigitsRev(x))

RECURSIVE BitsToInt(_)
BitsToInt(bits) ==
    IF bits = <<>> THEN 0
    ELSE 2 * BitsToInt(SubSeq(bits, 1, Len(bits) - 1)) + bits[Len(bits)]

RECURSIVE BFromBitsU(_)
BFromBitsU(bits) ==
    IF Len(bits) <= LimbBits THEN <<BitsToInt(bits)>>
    ELSE <<BitsToInt(SubSeq(bits, Len(bits) - LimbBits + 1, Len(bits)))>>
         \o BFromBitsU(SubSeq(bits, 1, Len(bits) - LimbBits))

\* the natural number a bit string writes, most significant bit first
BFromBits(bits) == BTrim(BFromBitsU(bits))

\* ------------------------------------------------------------------------
\* Binary floating point.  A positive value is [m, e], standing for
\* m * 2^e with m of exactly p bits (p = mantissa bits + 1, the leading
\* bit included); zero is [m |-> <<>>, e |-> 0].  The exponent is not
\* bounded: the notebook's values are far from overflow and underflow.
\* ------------------------------------------------------------------------

Zero == [m |-> <<>>, e |-> 0]

\* n * 2^e rounded to p significant bits, ties away from zero
RoundHalfAway(p, n0, e) ==
    With(n0, LAMBDA n :
        IF n = <<>> THEN Zero
        ELSE IF BBitLen(n) <= p
        THEN [m |-> BShl(n, p - BBitLen(n)), e |-> e - (p - BBitLen(n))]
        ELSE With(BBitLen(n) - p, LAMBDA s :
             With(BShr(n, s), LAMBDA q :
             With(BCmp(BSub(n, BShl(q, s)), BPow2(s - 1)), LAMBDA c :
             With(IF c >= 0 THEN BAdd(q, BOne) ELSE q, LAMBDA q1 :
                 IF BBitLen(q1) > p
                 THEN [m |-> BShr(q1, 1), e |-> e + s + 1]
                 ELSE [m |-> q1, e |-> e + s])))))

\* n * 2^e rounded to p significant bits, to nearest, ties to even: the
\* rounding of every IEEE-754 operation the notebook performs
\* (s bits are shifted out; c compares them with half of the last kept bit)
RoundNearestEven(p, n0, e) ==
    With(n0, LAMBDA n :
        IF n = <<>> THEN Zero
        ELSE IF BBitLen(n) <= p
        THEN [m |-> BShl(n, p - BBitLen(n)), e |-> e - (p - BBitLen(n))]
        ELSE With(BBitLen(n) - p, LAMBDA s :
             With(BShr(n, s), LAMBDA q :
             With(BCmp(BSub(n, BShl(q, s)), BPow2(s - 1)), LAMBDA c :
             With(IF c = 1 \/ (c = 0 /\ BOdd(q)) THEN BAdd(q, BOne) ELSE q,
                  LAMBDA q1 :
                 IF BBitLen(q1) > p
                 THEN [m |-> BShr(q1, 1), e |-> e + s + 1]
                 ELSE [m |-> q1, e |-> e + s])))))

\* a + b with the significands added as they stand, exponents not matched
FloatAddNoAlign(p, a0, b0) ==
    With(<<a0, b0>>, LAMBDA ab :
        RoundNearestEven(p, BAdd(ab[1].m, ab[2].m), ab[1].e))

\* a + b in a format of p significant bits: the exact sum, rounded once
FloatAdd(p, a0, b0) ==
    With(<<a0, b0>>, LAMBDA ab :
        LET a    == ab[1]
            b    == ab[2]
            emin == Min(a.e, b.e)
        IN  IF a.m = <<>> THEN RoundNearestEven(p, b.m, b.e)
            ELSE IF b.m = <<>> THEN RoundNearestEven(p, a.m, a.e)
            ELSE RoundNearestEven(
                     p, BAdd(BShl(a.m, a.e - emin), BShl(b.m, b.e - emin)), emin))

\* a value of a narrower format in a format of p bits (exact for p wider)
Convert(p, a) == RoundNearestEven(p, a.m, a.e)

\* the decimal literal d * 10^(-j), d > 0, j >= 0, correctly rounded to p
\* bits: 2q + sticky carries enough to round floor(d * 2^t / 10^j)
ParseDecimal(p, d, j) ==
    LET t == p + 2 + 4 * j
    IN  With(BDivPow10(BShl(BFromInt(d), t), j), LAMBDA dv :
            RoundNearestEven(
                p, BAdd(BMulS(dv.q, 2), IF dv.inexact THEN BOne ELSE <<>>),
                -t - 1))

\* the digits of x * 10^nd rounded to an integer, ties to even: what
\* '{0:.<nd>f}'.format(x) prints, without the point and leading zeros
FormatFixed(x, nd) ==
    With(BMulPow10(x.m, nd), LAMBDA n :
        IF x.e >= 0 THEN BDigits(BShl(n, x.e))
        ELSE With(BShr(n, -x.e), LAMBDA q :
             With(BCmp(BSub(n, BShl(q, -x.e)), BPow2(-x.e - 1)), LAMBDA c :
                 BDigits(IF c = 1 \/ (c = 0 /\ BOdd(q))
                         THEN BAdd(q, BOne) ELSE q))))

\* a - b for a >= b > 0 in a format of p significant bits
FloatSub(p, a0, b0) ==
    With(<<a0, b0>>, LAMBDA ab :
        LET a    == ab[1]
            b    == ab[2]
            emin == Min(a.e, b.e)
        IN  RoundNearestEven(
                p, BSub(BShl(a.m, a.e - emin), BShl(b.m, b.e - emin)), emin))

\* a * 2 (exact: only the exponent moves)
FloatDouble(a) == [m |-> a.m, e |-> a.e + 1]

\* 2^k in a format of p significant bits
FloatPow2(p, k) == [m |-> BPow2(p - 1), e |-> k - (p - 1)]

\* the position of the leading bit: x is in [2^k, 2^(k+1))
Exponent(x) == x.e + BBitLen(x.m) - 1

\* ------------------------------------------------------------------------
\* The formats of the notebook
\* ------------------------------------------------------------------------

\* "the mantissa takes 52 bits"; machep = -52
Float64Mantissa == 52

\* machep = -63 for np.longdouble
LongDoubleMantissa == 63

\* "the exponent takes 11 bits"; nexp = 11
ExponentBits == 11

\* "with e = 1023"
ExponentBias == 1023

\* "Number of bits:  64"
Float64Bits == 64

\* what the cell "print np.finfo(1.0)" printed: precision, machep, and the
\* digits of eps = 2.2204460492503131e-16 (32 places after the point)
PrintedFloat64 ==
    [precision |-> 15, machep |-> -52, nexp |-> 11, epsPlaces |-> 32,
     epsDigits |-> <<2, 2, 2, 0, 4, 4, 6, 0, 4, 9, 2, 5, 0, 3, 1, 3, 1>>]

\* what "print np.finfo(np.longdouble)" printed; eps = 1.08420217249e-19
\* (30 places after the point)
PrintedLongDouble ==
    [precision |-> 18, machep |-> -63, nexp |-> 15, epsPlaces |-> 30,
     epsDigits |-> <<1, 0, 8, 4, 2, 0, 2, 1, 7, 2, 4, 9>>]

DTypes == {"float64", "longdouble"}

\* significant bits of a dtype, the leading bit included
PrecisionBits(dtype) ==
    IF dtype = "longdouble" THEN LongDoubleMantissa + 1
    ELSE Float64Mantissa + 1

\* a Python float literal: always a float64
FloatLiteral(lit) == ParseDecimal(Float64Mantissa + 1, lit.d, lit.j)

\* ------------------------------------------------------------------------
\* np.finfo: the machine parameters, found as numpy's MachAr finds them,
\* by arithmetic in the format itself
\* ------------------------------------------------------------------------

RECURSIVE MachArIt(_, _, _)
\* it = -1; b = one; loop: it += 1; b = b * beta; temp = b + one;
\* temp1 = temp - b; if temp1 - one != zero: break
MachArIt(p, b, it) ==
    With(FloatDouble(b), LAMBDA b1 :
        LET temp  == FloatAdd(p, b1, FloatPow2(p, 0))
            temp1 == FloatSub(p, temp, b1)
        IN  IF temp1 # FloatPow2(p, 0) THEN it + 1
            ELSE MachArIt(p, b1, it + 1))

RECURSIVE MachArEps(_, _, _)
\* machep = -it - 3; a = beta ** machep; loop: temp = one + a;
\* if temp - one != zero: break; a = a * beta; machep += 1
MachArEps(p, a0, machep) ==
    With(a0, LAMBDA a :
        IF FloatAdd(p, FloatPow2(p, 0), a) # FloatPow2(p, 0)
        THEN [machep |-> machep, eps |-> a]
        ELSE MachArEps(p, FloatDouble(a), machep + 1))

RECURSIVE DigitsBelow(_, _)
\* the largest d >= from with 10^d * x <= 1, for 0 < x <= 10^(-from)
DigitsBelow(x0, from) ==
    With(x0, LAMBDA x :
        IF BCmp(BMulPow10(x.m, from + 1), BPow2(-x.e)) <= 0
        THEN DigitsBelow(x, from + 1)
        ELSE from)

\* int(log10(eps)): the sign of the logarithm kept
PrecisionSigned(eps) == -DigitsBelow(eps, 0)

\* round(-log10(eps)) in place of int(...), for eps a power of two:
\* one digit more when 10^(d + 1/2) * eps <= 1, that is 10^(2d+1) <= eps^-2
PrecisionRounded(eps) ==
    With(DigitsBelow(eps, 0), LAMBDA d :
        IF BCmp(BMulPow10(BOne, 2 * d + 1), BPow2(2 * (-Exponent(eps)))) <= 0
        THEN d + 1 ELSE d)

\* precision = int(-log10(eps)), for eps < 1
PrecisionOf(eps) == DigitsBelow(eps, 0)

\* the parameters np.finfo reports for a format of p significant bits
MachAr(p) ==
    With(MachArIt(p, FloatPow2(p, 0), -1), LAMBDA it :
    With(MachArEps(p, FloatPow2(p, -it - 3), -it - 3), LAMBDA r :
        [nmant     |-> it,
         machep    |-> r.machep,
         eps       |-> r.eps,
         precision |-> PrecisionOf(r.eps)]))

\* ------------------------------------------------------------------------
\* The appendix: a 64-bit pattern S | E | F read as S x M x 2^(E - e),
\* M = 1.F in binary
\* ------------------------------------------------------------------------

Zeros(n) == [i \in 1..n |-> 0]

RECURSIVE IntToBits(_, _)
\* n in w bits, most significant first
IntToBits(n, w) ==
    IF w = 0 THEN <<>> ELSE IntToBits(n \div 2, w - 1) \o <<n % 2>>

\* the reading without the leading 1 of M
DecodeNoHiddenBit(S, E, F) ==
    [sign |-> IF S = 0 THEN 1 ELSE -1,
     m    |-> BFromBits(F),
     e    |-> BitsToInt(E) - ExponentBias - Len(F)]

\* sign, and magnitude m * 2^e with m = 1F read as a binary integer
DecodeDouble(S, E, F) ==
    [sign |-> IF S = 0 THEN 1 ELSE -1,
     m    |-> BFromBits(<<1>> \o F),
     e    |-> BitsToInt(E) - ExponentBias - Len(F)]

\* ------------------------------------------------------------------------
\* The kernel: the variables the cells assign and what they print
\* ------------------------------------------------------------------------

\* additions to one variable before it is assigned again
MaxAdds == 2

\* widest mantissa np.finfo is asked about
MaxMant == 64

\* stored exponents E within this distance of the bias
MaxExpOffset == 3

\* leading mantissa bits of a pattern that vary (the rest are zeros)
FracPrefixBits == 4

\* literals assigned to a variable: 1.0, 0.1, 4.1
BaseLiterals == {[d |-> 1, j |-> 0], [d |-> 1, j |-> 1], [d |-> 41, j |-> 1]}

\* literals added: 1e-30, 2e-15, 1e-15, 1e-18, 1e-19 of the cells, and
\* 1.5e-16, 1e-16 around half the spacing of the float64 values at 1.0
AddLiterals ==
    {[d |-> 1, j |-> 30], [d |-> 2, j |-> 15], [d |-> 1, j |-> 15],
     [d |-> 1, j |-> 18], [d |-> 1, j |-> 19],
     [d |-> 15, j |-> 17], [d |-> 1, j |-> 16]}

\* digits after the point of '{0:.16f}', of the longdouble repr of 0.1, and
\* of '{0:.32f}'
FixedDigits == {16, 20, 32}

FinfoTable == [m \in 1..MaxMant |-> MachAr(m + 1)]

NoProfile ==
    [asked |-> 0, nmant |-> 0, machep |-> 0, eps |-> Zero, precision |-> 0]

NoPattern == [S |-> 0, E |-> <<>>, F |-> <<>>]

VARIABLES dtype, val, prev, addend, nadds, out, profile, earlier, pattern, decoded

vars == <<dtype, val, prev, addend, nadds, out, profile, earlier, pattern, decoded>>

arith == <<dtype, val, prev, addend, nadds, out>>

\* a fresh kernel: nothing assigned, nothing printed
Init ==
    /\ dtype = "none"
    /\ val = Zero
    /\ prev = Zero
    /\ addend = Zero
    /\ nadds = 0
    /\ out = [nd |-> 0, digits |-> <<>>]
    /\ profile = NoProfile
    /\ earlier = NoProfile
    /\ pattern = NoPattern
    /\ decoded = [sign |-> 1, m |-> <<>>, e |-> 0]

\* myval = 1.0;  myld = np.longdouble(0.1);  myd = np.float64(0.1)
Assign(t, lit) ==
    /\ dtype' = t
    /\ val' = Convert(PrecisionBits(t), FloatLiteral(lit))
    /\ prev' = Zero
    /\ addend' = Zero
    /\ nadds' = 0
    /\ out' = [nd |-> 0, digits |-> <<>>]
    /\ UNCHANGED <<profile, earlier, pattern, decoded>>

\* myval += 1e-30;  myld + 1e-18: the float64 literal is widened to the
\* variable's format and the sum rounded in it
AddLiteral(lit) ==
    /\ dtype \in DTypes
    /\ nadds < MaxAdds
    /\ prev' = val
    /\ addend' = FloatLiteral(lit)
    /\ val' = FloatAdd(PrecisionBits(dtype), val, FloatLiteral(lit))
    /\ nadds' = nadds + 1
    /\ out' = [nd |-> 0, digits |-> <<>>]
    /\ UNCHANGED <<dtype, profile, earlier, pattern, decoded>>

\* print '{0:.16f}'.format(myval);  print '{!r}'.format(myld)
PrintFixed(nd) ==
    /\ dtype \in DTypes
    /\ out' = [nd |-> nd, digits |-> FormatFixed(val, nd)]
    /\ UNCHANGED <<dtype, val, prev, addend, nadds, profile, earlier, pattern, decoded>>

\* print np.finfo(dtype), for a dtype of m mantissa bits
Finfo(m) ==
    /\ earlier' = profile
    /\ profile' = [asked     |-> m,
                   nmant     |-> FinfoTable[m].nmant,
                   machep    |-> FinfoTable[m].machep,
                   eps       |-> FinfoTable[m].eps,
                   precision |-> FinfoTable[m].precision]
    /\ UNCHANGED <<arith, pattern, decoded>>

\* reading one bit pattern of the appendix
Decode(S, E, F) ==
    /\ pattern' = [S |-> S, E |-> E, F |-> F]
    /\ decoded' = DecodeDouble(S, E, F)
    /\ UNCHANGED <<arith, profile, earlier>>

NextArith ==
    \/ \E t \in DTypes, lit \in BaseLiterals : Assign(t, lit)
    \/ \E lit \in AddLiterals : AddLiteral(lit)
    \/ \E nd \in FixedDigits : PrintFixed(nd)

NextFinfo == \E m \in 1..MaxMant : Finfo(m)

NextBits ==
    \E S \in {0, 1},
       E \in (ExponentBias - MaxExpOffset)..(ExponentBias + MaxExpOffset),
       f \in 0..(Pow2S(FracPrefixBits) - 1) :
        Decode(S, IntToBits(E, ExponentBits),
               IntToBits(f, FracPrefixBits) \o Zeros(Float64Mantissa - FracPrefixBits))

Next == NextArith \/ NextFinfo \/ NextBits

\* the cells of "Machine Accuracy" and "longdouble gives higher precision"
SpecArith == Init /\ [][NextArith]_vars

\* the np.finfo cells
SpecFinfo == Init /\ [][NextFinfo]_vars

\* the appendix "Floating-Point Representation"
SpecBits == Init /\ [][NextBits]_vars

Spec == Init /\ [][Next]_vars

\* ------------------------------------------------------------------------
\* Properties
\* ------------------------------------------------------------------------

One(t) == FloatPow2(PrecisionBits(t), 0)

Lit(d, j) == FloatLiteral([d |-> d, j |-> j])

\* C3: for every mantissa width m asked about, the eps np.finfo reports is
\* exactly 2^(-m) (machep = -m); for m = 52 and m = 63 it is the machep and
\* the eps the notebook printed (2.2204460492503131e-16, 1.08420217249e-19).
C3_EpsilonIsPowerOfTwo ==
    profile.asked > 0 =>
        /\ profile.eps = FloatPow2(profile.asked + 1, -profile.asked)
        /\ profile.machep = -profile.asked
        /\ profile.asked = Float64Mantissa =>
              /\ profile.machep = PrintedFloat64.machep
              /\ FormatFixed(profile.eps, PrintedFloat64.epsPlaces)
                     = PrintedFloat64.epsDigits
        /\ profile.asked = LongDoubleMantissa =>
              /\ profile.machep = PrintedLongDouble.machep
              /\ FormatFixed(profile.eps, PrintedLongDouble.epsPlaces)
                     = PrintedLongDouble.epsDigits

C3_Witness ==
    /\ profile.asked = Float64Mantissa
    /\ earlier.asked = LongDoubleMantissa
    /\ profile.eps = FloatPow2(Float64Mantissa + 1, -Float64Mantissa)
    /\ earlier.eps = FloatPow2(LongDoubleMantissa + 1, -LongDoubleMantissa)

C9_DigitsTruncated ==
    profile.asked > 0 =>
        /\ BCmp(BMulPow10(BOne, profile.precision), BPow2(profile.asked)) <= 0
        /\ BCmp(BPow2(profile.asked), BMulPow10(BOne, profile.precision + 1)) < 0
        /\ profile.asked = Float64Mantissa
              => profile.precision = PrintedFloat64.precision
        /\ profile.asked = LongDoubleMantissa
              => profile.precision = PrintedLongDouble.precision

C9_Witness ==
    /\ profile.asked = LongDoubleMantissa
    /\ profile.precision = PrintedLongDouble.precision
    /\ earlier.asked = Float64Mantissa
    /\ earlier.precision = PrintedFloat64.precision

C8_LongDoubleNotices ==
    (nadds = 1 /\ dtype \in DTypes
       /\ prev = Convert(PrecisionBits(dtype), Lit(1, 1))) =>
        /\ (dtype = "longdouble" /\ addend = Lit(1, 18)) => val # prev
        /\ (dtype = "longdouble" /\ addend = Lit(1, 19)) => val = prev
        /\ (dtype = "float64" /\ addend = Lit(1, 18)) => val = prev

Pattern2 ==
    [S |-> 0, E |-> <<1, 0, 0, 0, 0, 0, 0, 0, 0, 0, 0>>,
     F |-> Zeros(Float64Mantissa)]

Pattern65 ==
    [S |-> 0, E |-> <<1, 0, 0, 0, 0, 0, 0, 0, 0, 0, 1>>,
     F |-> <<1, 0, 1, 0>> \o Zeros(Float64Mantissa - 4)]

\* C10: a pattern is 1 sign bit, 11 exponent bits and 52 mantissa bits, 64
\* in all; read as S x 1.F x 2^(E - 1023), 0|10000000000|0...0 is the
\* float64 2.0 and 0|10000000001|1010...0 is the float64 6.5.
C10_LayoutAndDecoding ==
    pattern # NoPattern =>
        /\ Len(pattern.E) = PrintedFloat64.nexp
        /\ Len(pattern.F) = -PrintedFloat64.machep
        /\ 1 + Len(pattern.E) + Len(pattern.F) = Float64Bits
        /\ pattern = Pattern2 =>
              decoded = [sign |-> 1, m |-> Lit(2, 0).m, e |-> Lit(2, 0).e]
        /\ pattern = Pattern65 =>
              decoded = [sign |-> 1, m |-> Lit(65, 1).m, e |-> Lit(65, 1).e]

C10_Witness ==
    /\ pattern = Pattern65
    /\ decoded.sign = 1
    /\ decoded.m = Lit(65, 1).m
    /\ decoded.e = Lit(65, 1).e

====
